---- MODULE Spec2Model ----
(***************************************************************************)
(* A model of dev/ctanpkglist.py: the script that cross-references the     *)
(* CTAN catalog with the ls-R index of a TeX installation and writes the   *)
(* package and class tables used for \usepackage / \documentclass          *)
(* completion.                                                             *)
(*                                                                         *)
(* Python strings are TLA+ strings; a dict is a function whose DOMAIN is   *)
(* its key set; a list is a sequence; an optional value (None or a value)  *)
(* is the empty tuple or a one-element tuple.                              *)
(***************************************************************************)
EXTENDS Integers, Sequences, FiniteSets, TLC

VARIABLES
    pc,             \* position of the __main__ block
    ctanDict,       \* CatalogTable built by build_ctanDict
    read,           \* raw lines of ls-R consumed so far by `for line in fd`
    lsRdb,          \* PackageFileMap
    pkg,            \* load_texmfbd: current package (optional)
    pkgfiles,       \* load_texmfbd: accumulator of the current block
    allfiles,       \* AllFilesList (all_lsR_files once load_texmfbd returned)
    package_data,   \* PackageOutputTable
    extra_packages, \* ExtrasTable as loaded from extra-packagenames.json
    class_data,     \* ClassOutputTable
    packagenames,   \* ../data/packagenames.json: none while the run has not
                    \* opened it, else what it holds (see Whole, Part)
    classnames      \* ../data/classnames.json, likewise

vars == <<pc, ctanDict, read, lsRdb, pkg, pkgfiles, allfiles, package_data,
          extra_packages, class_data, packagenames, classnames>>

(***************************************************************************)
(* Bounds of the model.                                                    *)
(***************************************************************************)
MaxLines == 4       \* longest ls-R file, in lines
MaxCatalog == 2     \* longest list of catalog entries fetched
MaxExtras == 2      \* most keys of the extras table
MaxScan == 6        \* longest ls-R file of the deep scan (SpecScan)

(***************************************************************************)
(* Optional values.                                                        *)
(***************************************************************************)
None == <<>>
Some(x) == <<x>>
EmptyDict == <<>>

(***************************************************************************)
(* str methods.                                                            *)
(***************************************************************************)
startswith(s, p) == Len(s) >= Len(p) /\ SubSeq(s, 1, Len(p)) = p

endswith(s, p) == Len(s) >= Len(p) /\ SubSeq(s, Len(s) - Len(p) + 1, Len(s)) = p

RECURSIVE rstrip_newline(_)
rstrip_newline(s) ==
    IF Len(s) > 0 /\ SubSeq(s, Len(s), Len(s)) = "\n"
    THEN rstrip_newline(SubSeq(s, 1, Len(s) - 1))
    ELSE s

(***************************************************************************)
(* str.lower.  CPython lowers a string code point by code point with the   *)
(* Unicode case tables (Unicode 14.0 in CPython 3.11): the one-to-one      *)
(* lower-case mappings, and capital sigma, which becomes the final sigma   *)
(* when a cased letter precedes it and none follows it, case-ignorable     *)
(* code points skipped on both sides.                                      *)
(*                                                                         *)
(* A string of this module holds ASCII (the grave accent excepted) and the *)
(* code points up to U+FFFF whose low byte is at least 0x80; the tables    *)
(* below are the case tables cut down to those code points.  NoLowerCase   *)
(* lists the upper-case letters among them whose lower case is not such a  *)
(* code point (U+0181 gives U+0253): the lower case of a string that holds *)
(* one of them is no string of this module, so it differs from every       *)
(* string of this module; can_lower tells the strings free of them, on     *)
(* which lower is what str.lower returns.                                  *)
(***************************************************************************)
UpperCase ==
    "ABCDEFGHIJKLMNOPQRSTUVWXYZÀÁÂÃÄÅÆÇÈÉÊËÌÍÎÏÐÑÒÓÔÕ"
    \o "ÖØÙÚÛÜÝÞƂƄƇƋƎƑƘƠƢƤƦƧƩƬƮƯƱƲƳƵƷƸƼǄǅǇǈǊǋǍǏǑǓǕǗǙǛǞǠǢ"
    \o "ǤǦǨǪǬǮǱǲǴǶǷǸǺǼǾΆΈΉΊΌΎΏΑΒΓΔΕΖΗΘΙΚΛΜΝΞΟΠΡΤΥΦΧΨΩΪΫϏ"
    \o "ϘϚϜϞϠϢϤϦϨϪϬϮϴϷϹϺҀҊҌҎҐҒҔҖҘҚҜҞҠҢҤҦҨҪҬҮҰҲҴҶҸҺҼҾӀӁӃӅ"
    \o "ӇӉӋӍӐӒӔӖӘӚӜӞӠӢӤӦӨӪӬӮӰӲӴӶӸӺӼӾᎰᎱᎲᎳᎴᎵᎶᎷᎸᎹᎺᎻᎼᎽᎾᎿᏀᏁᏂᏃ"
    \o "ᏄᏅᏆᏇᏈᏉᏊᏋᏌᏍᏎᏏᏐᏑᏒᏓᏔᏕᏖᏗᏘᏙᏚᏛᏜᏝᏞᏟᏠᏡᏢᏣᏤᏥᏦᏧᏨᏩᏪᏫᏬᏭᏮᏯᏰᏱᏲᏳ"
    \o "ᏴᏵᲐᲑᲒᲓᲔᲕᲖᲗᲘᲙᲚᲛᲜᲝᲞᲟᲠᲡᲢᲣᲤᲥᲦᲧᲨᲩᲪᲫᲬᲭᲮᲯᲰᲱᲲᲳᲴᲵᲶᲷᲸᲹᲺᲽᲾᲿ"
    \o "ẀẂẄẆẈẊẌẎẐẒẔẞẠẢẤẦẨẪẬẮẰẲẴẶẸẺẼẾỀỂỄỆỈỊỌỎỐỒỔỖỘỚỜỞỠỢỤỦ"
    \o "ỨỪỬỮỰỲỴỶỸỺỼỾᾈᾉᾊᾋᾌᾍᾎᾏᾘᾙᾚᾛᾜᾝᾞᾟᾨᾩᾪᾫᾬᾭᾮᾯᾸᾹᾼῌῘῙῨῩῬῼↃⒶ"
    \o "ⒷⒸⒹⒺⒻⒼⒽⒾⒿⓀⓁⓂⓃⓄⓅⓆⓇⓈⓉⓊⓋⓌⓍⓎⓏⲀⲂⲄⲆⲈⲊⲌⲎⲐⲒⲔⲖⲘⲚⲜⲞⲠⲢⲤⲦⲨⲪⲬ"
    \o "ⲮⲰⲲⲴⲶⲸⲺⲼⲾⳀⳂⳄⳆⳈⳊⳌⳎⳐⳒⳔⳖⳘⳚⳜⳞⳠⳢⳫⳭⳲꚀꚂꚄꚆꚈꚊꚌꚎꚐꚒꚔꚖꚘꚚꞀꞂꞄꞆ"
    \o "ꞋꞐꞒꞖꞘꞚꞜꞞꞠꞢꞤꞦꞨꞰꞱꞲꞴꞶꞸꞺꞼꞾꟀꟂꟄꟅꟆꟇꟉꟐꟖꟘꟵ"

LowerCase ==
    "abcdefghijklmnopqrstuvwxyzàáâãäåæçèéêëìíîïðñòóôõ"
    \o "öøùúûüýþƃƅƈƌǝƒƙơƣƥʀƨʃƭʈưʊʋƴƶʒƹƽǆǆǉǉǌǌǎǐǒǔǖǘǚǜǟǡǣ"
    \o "ǥǧǩǫǭǯǳǳǵƕƿǹǻǽǿάέήίόύώαβγδεζηθικλμνξοπρτυφχψωϊϋϗ"
    \o "ϙϛϝϟϡϣϥϧϩϫϭϯθϸϲϻҁҋҍҏґғҕҗҙқҝҟҡңҥҧҩҫҭүұҳҵҷҹһҽҿӏӂӄӆ"
    \o "ӈӊӌӎӑӓӕӗәӛӝӟӡӣӥӧөӫӭӯӱӳӵӷӹӻӽӿꮀꮁꮂꮃꮄꮅꮆꮇꮈꮉꮊꮋꮌꮍꮎꮏꮐꮑꮒꮓ"
    \o "ꮔꮕꮖꮗꮘꮙꮚꮛꮜꮝꮞꮟꮠꮡꮢꮣꮤꮥꮦꮧꮨꮩꮪꮫꮬꮭꮮꮯꮰꮱꮲꮳꮴꮵꮶꮷꮸꮹꮺꮻꮼꮽꮾꮿᏸᏹᏺᏻ"
    \o "ᏼᏽაბგდევზთიკლმნოპჟრსტუფქღყშჩცძწჭხჯჰჱჲჳჴჵჶჷჸჹჺჽჾჿ"
    \o "ẁẃẅẇẉẋẍẏẑẓẕßạảấầẩẫậắằẳẵặẹẻẽếềểễệỉịọỏốồổỗộớờởỡợụủ"
    \o "ứừửữựỳỵỷỹỻỽỿᾀᾁᾂᾃᾄᾅᾆᾇᾐᾑᾒᾓᾔᾕᾖᾗᾠᾡᾢᾣᾤᾥᾦᾧᾰᾱᾳῃῐῑῠῡῥῳↄⓐ"
    \o "ⓑⓒⓓⓔⓕⓖⓗⓘⓙⓚⓛⓜⓝⓞⓟⓠⓡⓢⓣⓤⓥⓦⓧⓨⓩⲁⲃⲅⲇⲉⲋⲍⲏⲑⲓⲕⲗⲙⲛⲝⲟⲡⲣⲥⲧⲩⲫⲭ"
    \o "ⲯⲱⲳⲵⲷⲹⲻⲽⲿⳁⳃⳅⳇⳉⳋⳍⳏⳑⳓⳕⳗⳙⳛⳝⳟⳡⳣⳬⳮⳳꚁꚃꚅꚇꚉꚋꚍꚏꚑꚓꚕꚗꚙꚛꞁꞃꞅꞇ"
    \o "ꞌꞑꞓꞗꞙꞛꞝꞟꞡꞣꞥꞧꞩʞʇʝꞵꞷꞹꞻꞽꞿꟁꟃꞔʂᶎꟈꟊꟑꟗꟙꟶ"

NoLowerCase ==
    "ƁƆƉƊƏƐƓƔƖƗƜƝƟϽϾϿႠႡႢႣႤႥႦႧႨႩႪႫႬႭႮႯႰႱႲႳႴႵႶႷႸႹႺႻႼႽႾႿ"
    \o "ჀჁჂჃჄჅჇჍᎠᎡᎢᎣᎤᎥᎦᎧᎨᎩᎪᎫᎬᎭᎮᎯᾺΆῈΈῊΉῚΊῪΎῸΌῺΏꞍꞪꞫꞬꞭꞮꞳ"

\* the cased code points that are not case-ignorable
CasedChars ==
    "ABCDEFGHIJKLMNOPQRSTUVWXYZabcdefghijklmnopqrstuv"
    \o "wxyzªµºÀÁÂÃÄÅÆÇÈÉÊËÌÍÎÏÐÑÒÓÔÕÖØÙÚÛÜÝÞßàáâãäåæçèé"
    \o "êëìíîïðñòóôõöøùúûüýþÿƀƁƂƃƄƅƆƇƈƉƊƋƌƍƎƏƐƑƒƓƔƕƖƗƘƙƚ"
    \o "ƛƜƝƞƟƠơƢƣƤƥƦƧƨƩƪƫƬƭƮƯưƱƲƳƴƵƶƷƸƹƺƼƽƾƿǄǅǆǇǈǉǊǋǌǍǎǏ"
    \o "ǐǑǒǓǔǕǖǗǘǙǚǛǜǝǞǟǠǡǢǣǤǥǦǧǨǩǪǫǬǭǮǯǰǱǲǳǴǵǶǷǸǹǺǻǼǽǾǿ"
    \o "ʀʁʂʃʄʅʆʇʈʉʊʋʌʍʎʏʐʑʒʓʕʖʗʘʙʚʛʜʝʞʟʠʡʢʣʤʥʦʧʨʩʪʫʬʭʮʯΆ"
    \o "ΈΉΊΌΎΏΐΑΒΓΔΕΖΗΘΙΚΛΜΝΞΟΠΡΣΤΥΦΧΨΩΪΫάέήίΰαβγδεζηθικ"
    \o "λμνξοπρςστυφχψωϊϋόύώϏϐϑϒϓϔϕϖϗϘϙϚϛϜϝϞϟϠϡϢϣϤϥϦϧϨϩϪ"
    \o "ϫϬϭϮϯϰϱϲϳϴϵϷϸϹϺϻϼϽϾϿҀҁҊҋҌҍҎҏҐґҒғҔҕҖҗҘҙҚқҜҝҞҟҠҡҢң"
    \o "ҤҥҦҧҨҩҪҫҬҭҮүҰұҲҳҴҵҶҷҸҹҺһҼҽҾҿӀӁӂӃӄӅӆӇӈӉӊӋӌӍӎӏӐӑӒӓ"
    \o "ӔӕӖӗӘәӚӛӜӝӞӟӠӡӢӣӤӥӦӧӨөӪӫӬӭӮӯӰӱӲӳӴӵӶӷӸӹӺӻӼӽӾӿրցւփ"
    \o "քօֆևֈႠႡႢႣႤႥႦႧႨႩႪႫႬႭႮႯႰႱႲႳႴႵႶႷႸႹႺႻႼႽႾႿჀჁჂჃჄჅჇჍაბგ"
    \o "დევზთიკლმნოპჟრსტუფქღყშჩცძწჭხჯჰჱჲჳჴჵჶჷჸჹჺჽჾჿᎠᎡᎢᎣᎤ"
    \o "ᎥᎦᎧᎨᎩᎪᎫᎬᎭᎮᎯᎰᎱᎲᎳᎴᎵᎶᎷᎸᎹᎺᎻᎼᎽᎾᎿᏀᏁᏂᏃᏄᏅᏆᏇᏈᏉᏊᏋᏌᏍᏎᏏᏐᏑᏒᏓᏔ"
    \o "ᏕᏖᏗᏘᏙᏚᏛᏜᏝᏞᏟᏠᏡᏢᏣᏤᏥᏦᏧᏨᏩᏪᏫᏬᏭᏮᏯᏰᏱᏲᏳᏴᏵᏸᏹᏺᏻᏼᏽᲀᲁᲂᲃᲄᲅᲆᲇᲈ"
    \o "ᲐᲑᲒᲓᲔᲕᲖᲗᲘᲙᲚᲛᲜᲝᲞᲟᲠᲡᲢᲣᲤᲥᲦᲧᲨᲩᲪᲫᲬᲭᲮᲯᲰᲱᲲᲳᲴᲵᲶᲷᲸᲹᲺᲽᲾᲿᶀᶁ"
    \o "ᶂᶃᶄᶅᶆᶇᶈᶉᶊᶋᶌᶍᶎᶏᶐᶑᶒᶓᶔᶕᶖᶗᶘᶙᶚẀẁẂẃẄẅẆẇẈẉẊẋẌẍẎẏẐẑẒẓẔẕẖ"
    \o "ẗẘẙẚẛẜẝẞẟẠạẢảẤấẦầẨẩẪẫẬậẮắẰằẲẳẴẵẶặẸẹẺẻẼẽẾếỀềỂểỄễỆ"
    \o "ệỈỉỊịỌọỎỏỐốỒồỔổỖỗỘộỚớỜờỞởỠỡỢợỤụỦủỨứỪừỬửỮữỰựỲỳỴỵỶ"
    \o "ỷỸỹỺỻỼỽỾỿᾀᾁᾂᾃᾄᾅᾆᾇᾈᾉᾊᾋᾌᾍᾎᾏᾐᾑᾒᾓᾔᾕᾖᾗᾘᾙᾚᾛᾜᾝᾞᾟᾠᾡᾢᾣᾤᾥᾦ"
    \o "ᾧᾨᾩᾪᾫᾬᾭᾮᾯᾰᾱᾲᾳᾴᾶᾷᾸᾹᾺΆᾼιῂῃῄῆῇῈΈῊΉῌῐῑῒΐῖῗῘῙῚΊῠῡῢΰῤῥ"
    \o "ῦῧῨῩῪΎῬῲῳῴῶῷῸΌῺΏῼↃↄⒶⒷⒸⒹⒺⒻⒼⒽⒾⒿⓀⓁⓂⓃⓄⓅⓆⓇⓈⓉⓊⓋⓌⓍⓎⓏⓐⓑⓒ"
    \o "ⓓⓔⓕⓖⓗⓘⓙⓚⓛⓜⓝⓞⓟⓠⓡⓢⓣⓤⓥⓦⓧⓨⓩⲀⲁⲂⲃⲄⲅⲆⲇⲈⲉⲊⲋⲌⲍⲎⲏⲐⲑⲒⲓⲔⲕⲖⲗⲘ"
    \o "ⲙⲚⲛⲜⲝⲞⲟⲠⲡⲢⲣⲤⲥⲦⲧⲨⲩⲪⲫⲬⲭⲮⲯⲰⲱⲲⲳⲴⲵⲶⲷⲸⲹⲺⲻⲼⲽⲾⲿⳀⳁⳂⳃⳄⳅⳆⳇⳈ"
    \o "ⳉⳊⳋⳌⳍⳎⳏⳐⳑⳒⳓⳔⳕⳖⳗⳘⳙⳚⳛⳜⳝⳞⳟⳠⳡⳢⳣⳤⳫⳬⳭⳮⳲⳳꚀꚁꚂꚃꚄꚅꚆꚇꚈꚉꚊꚋꚌꚍ"
    \o "ꚎꚏꚐꚑꚒꚓꚔꚕꚖꚗꚘꚙꚚꚛꞀꞁꞂꞃꞄꞅꞆꞇꞋꞌꞍꞎꞐꞑꞒꞓꞔꞕꞖꞗꞘꞙꞚꞛꞜꞝꞞꞟꞠꞡꞢꞣꞤꞥ"
    \o "ꞦꞧꞨꞩꞪꞫꞬꞭꞮꞯꞰꞱꞲꞳꞴꞵꞶꞷꞸꞹꞺꞻꞼꞽꞾꞿꟀꟁꟂꟃꟄꟅꟆꟇꟈꟉꟊꟐꟑꟓꟕꟖꟗꟘꟙꟵꟶꟺ"
    \o "ꮀꮁꮂꮃꮄꮅꮆꮇꮈꮉꮊꮋꮌꮍꮎꮏꮐꮑꮒꮓꮔꮕꮖꮗꮘꮙꮚꮛꮜꮝꮞꮟꮠꮡꮢꮣꮤꮥꮦꮧꮨꮩꮪꮫꮬꮭꮮꮯ"
    \o "ꮰꮱꮲꮳꮴꮵꮶꮷꮸꮹꮺꮻꮼꮽꮾꮿ"

\* the case-ignorable code points
CaseIgnorableChars ==
    "'.:^¨­¯´·¸ʰʱʲʳʴʵʶʷʸʹʺʻʼʽʾʿˀˁ˂˃˄˅ˆˇˈˉˊˋˌˍˎˏːˑ˒˓˔˕"
    \o "˖˗˘˙˚˛˜˝˞˟ˠˡˢˣˤ˥˦˧˨˩˪˫ˬ˭ˮ˯˰˱˲˳˴˵˶˷˸˹˺˻˼˽˾˿΄΅·҃҄҅"
    \o "҆҇҈҉ְֱֲֳִֵֶַָֹֺֻּ֑֖֛֢֣֤֥֦֧֪֚֭֮֒֓֔֕֗֘֙֜֝֞֟֠֡֨֩֫֬֯"
    \o "ׇֽֿׁׂׅׄ״ۖۗۘۙۚۛۜ۝ۣ۟۠ۡۢۤۥۦ۪ۭۧۨ۫۬ަާިީުޫެޭޮޯް߫߬߭߮߯߰߱"
    \o "߲߳ߴߵߺ߽࢈࢐࢑࢙࢚࢛࢘࢜࢝࢞࢟ࣉ࣏࣐࣑࣒࣓࣊࣋࣌࣍࣎ࣔࣕࣖࣗࣘࣙࣚࣛࣜࣝࣞࣟ࣠࣡࣢ࣣࣦࣤࣥࣧ"
    \o "ࣰࣱࣲࣩ࣭࣮࣯ࣶࣹࣺࣨ࣪࣫࣬ࣳࣴࣵࣷࣸࣻࣼࣽࣾࣿঁ়ুূৃৄ্ৢৣ৾ઁં઼ુૂૃૄૅેૈ્ૢૣૺ"
    \o "ૻૼ૽૾૿ஂீ்ಁ಼ಿೆೌ್ೢೣඁ්ිීුූັິີຶື຺ຸູົຼໆ່້໊໋໌ໍ྄ཱྀྀྂྃ྆྇ྍྎ"
    \o "ྏྐྑྒྒྷྔྕྖྗྙྚྛྜྜྷྞྟྠྡྡྷྣྤྥྦྦྷྨྩྪྫྫྷྭྮྯྰྱྲླྴྵྶྷྸྐྵྺྻྼ࿆ႂႅ"
    \o "ႆႍႝჼ឴឵ិីឹឺុូួំ៉៊់៌៍៎៏័៑្៓ៗ៝ᢅᢆᢩᪧ᪵᪶᪷᪸᪹᪺᪽᪰᪱᪲᪳᪴᪻᪼᪾ᪿᫀ"
    \o "᫃᫄᫊᫁᫂᫅᫆᫇᫈᫉᫋ᫌᫍᫎᮀᮁᮢᮣᮤᮥᮨᮩ᮫ᮬᮭ᯦ᯨᯩᯭᯯᯰᯱ᳔᳕᳖᳗᳘᳙᳜᳝᳞᳟᳐᳑᳒᳚᳛᳠"
    \o "᳢᳣᳤᳥᳦᳧᳨᳭᳴᳸᳹ᶛᶜᶝᶞᶟᶠᶡᶢᶣᶤᶥᶦᶧᶨᶩᶪᶫᶬᶭᶮᶯᶰᶱᶲᶳᶴᶵᶶᶷᶸᶹᶺᶻᶼᶽᶾᶿ"
    \o "᷐᷎᷂᷊᷏᷀᷁᷃᷄᷅᷆᷇᷈᷉᷋᷌᷑᷒ᷓᷔᷕᷖᷗᷘᷙᷚᷛᷜᷝᷞᷟᷠᷡᷢᷣᷤᷥᷦᷧᷨᷩᷪᷫᷬᷭᷮᷯ᷍"
    \o "᷺᷹᷽᷿᷷᷸ᷰᷱᷲᷳᷴ᷵᷻᷾᷶᷼᾽᾿῀῁῍῎῏῝῞῟῭΅`´῾ₐₑₒₓₔₕₖₗₘₙₚₛₜ⃒⃓⃐⃑"
    \o "⃘⃙⃚⃔⃕⃖⃗⃛⃜⃝⃞⃟⃠⃡⃢⃣⃤⃥⃦⃪⃫⃨⃬⃭⃮⃯⃧⃩⃰⳯⳰⳱ⷠⷡⷢⷣⷤⷥⷦⷧⷨⷩⷪⷫⷬⷭⷮⷯ"
    \o "゙゚ⷰⷱⷲⷳⷴⷵⷶⷷⷸⷹⷺⷻⷼⷽⷾⷿ゛゜ゝゞーヽヾꓸꓹꓺꓻꓼꓽꚜꚝꚞꚟ꛰꛱ꞈ꞉꞊ꟲꟳꟴꟸꟹ꣄ꣅ꣠"
    \o "꣡꣢꣣꣤꣥꣦꣧꣨꣩꣪꣫꣬꣭꣮꣯꣰꣱ꣿꦀꦁꦂ꦳ꦶꦷꦸꦹꦼꦽꧏꧥꧦꪴꪰꪲꪳꪷꪸꪾ꪿꫁ꫝꫬꫭꫳꫴ꫶ꯥꯨ"
    \o "꯭﮲﮳﮴﮵﮶﮷﮸﮹﮺﮻﮼﮽﮾﮿﯀﯁﯂﻿ﾞﾟ￣￹￺￻"

Chars(str) == {SubSeq(str, i, i) : i \in 1..Len(str)}

LowerOf ==
    [c \in Chars(UpperCase) |->
        LET i == CHOOSE i \in 1..Len(UpperCase) : SubSeq(UpperCase, i, i) = c
        IN SubSeq(LowerCase, i, i)]

Cased == Chars(CasedChars)

CaseIgnorable == Chars(CaseIgnorableChars)

\* skipping case-ignorable code points backwards from position i, a cased one is met
RECURSIVE cased_before(_, _)
cased_before(s, i) ==
    IF i < 1 THEN FALSE
    ELSE IF SubSeq(s, i, i) \in CaseIgnorable THEN cased_before(s, i - 1)
    ELSE SubSeq(s, i, i) \in Cased

\* the same forwards
RECURSIVE cased_after(_, _)
cased_after(s, i) ==
    IF i > Len(s) THEN FALSE
    ELSE IF SubSeq(s, i, i) \in CaseIgnorable THEN cased_after(s, i + 1)
    ELSE SubSeq(s, i, i) \in Cased

\* the lower case of the code point at position i of s
lower_char(s, i) ==
    LET c == SubSeq(s, i, i)
    IN IF c = "Σ"
       THEN IF cased_before(s, i - 1) /\ ~cased_after(s, i + 1) THEN "ς" ELSE "σ"
       ELSE IF c \in DOMAIN LowerOf THEN LowerOf[c]
       ELSE c

RECURSIVE lower_from(_, _)
lower_from(s, i) ==
    IF i > Len(s) THEN "" ELSE lower_char(s, i) \o lower_from(s, i + 1)

lower(s) == lower_from(s, 1)

can_lower(s) == \A i \in 1..Len(s) : SubSeq(s, i, i) \notin Chars(NoLowerCase)

\* str.rfind(c) for a one-character c, 0-based; -1 when absent
rfind(s, c) ==
    LET hits == {i \in 1..Len(s) : SubSeq(s, i, i) = c}
    IN IF hits = {} THEN -1
       ELSE (CHOOSE i \in hits : \A j \in hits : j <= i) - 1

(***************************************************************************)
(* pathlib.Path (PurePosixPath): parts, name, suffix, stem.                *)
(***************************************************************************)
\* s.split('/')
RECURSIVE split_slash(_)
split_slash(s) ==
    LET i == rfind(s, "/")
    IN IF i = -1 THEN <<s>>
       ELSE Append(split_slash(SubSeq(s, 1, i)), SubSeq(s, i + 2, Len(s)))

RECURSIVE drop_empty_and_dot(_)
drop_empty_and_dot(segs) ==
    IF segs = <<>> THEN <<>>
    ELSE LET rest == drop_empty_and_dot(Tail(segs))
         IN IF Head(segs) = "" \/ Head(segs) = "." THEN rest
            ELSE <<Head(segs)>> \o rest

\* the root part of an absolute path: "//" for exactly two leading slashes
path_root(s) ==
    IF ~startswith(s, "/") THEN ""
    ELSE IF startswith(s, "//") /\ ~startswith(s, "///") THEN "//"
    ELSE "/"

path_parts(s) ==
    LET rel == drop_empty_and_dot(split_slash(s))
    IN IF path_root(s) = "" THEN rel ELSE <<path_root(s)>> \o rel

path_name(s) ==
    LET rel == drop_empty_and_dot(split_slash(s))
    IN IF rel = <<>> THEN "" ELSE rel[Len(rel)]

path_suffix(s) ==
    LET name == path_name(s)
        i == rfind(name, ".")
    IN IF 0 < i /\ i < Len(name) - 1 THEN SubSeq(name, i + 1, Len(name)) ELSE ""

path_stem(s) ==
    LET name == path_name(s)
        i == rfind(name, ".")
    IN IF 0 < i /\ i < Len(name) - 1 THEN SubSeq(name, 1, i) ELSE name

(***************************************************************************)
(* Lists and dicts.                                                        *)
(***************************************************************************)
InList(x, list) == \E i \in 1..Len(list) : list[i] = x

Reverse(list) == [i \in 1..Len(list) |-> list[Len(list) + 1 - i]]

\* d[k] = v
dict_set(d, k, v) == [x \in (DOMAIN d) \cup {k} |-> IF x = k THEN v ELSE d[x]]

(***************************************************************************)
(* build_ctanDict                                                          *)
(***************************************************************************)
RECURSIVE build_ctanDict(_)
build_ctanDict(ctanList) ==
    IF ctanList = <<>> THEN EmptyDict
    ELSE LET n == Len(ctanList)
             x == ctanList[n]
         IN dict_set(build_ctanDict(SubSeq(ctanList, 1, n - 1)), x.key,
                     [command |-> x.key,
                      documentation |-> "https://ctan.org/pkg/" \o x.key,
                      detail |-> x.caption])

(***************************************************************************)
(* load_texmfbd: one iteration of `for line in fd`.                        *)
(***************************************************************************)
\* for part in reversed(parts): if part in allpkgs: pkg = part; break
RECURSIVE first_known(_, _)
first_known(parts, allpkgs) ==
    IF parts = <<>> THEN None
    ELSE IF Head(parts) \in allpkgs THEN Some(Head(parts))
    ELSE first_known(Tail(parts), allpkgs)

\* the header step scanning the segments root first
enter_package_outermost(st, line, allpkgs) ==
    IF endswith(line, ":") /\ startswith(line, "./")
    THEN [st EXCEPT
            !.pkg = first_known(path_parts(SubSeq(line, 1, Len(line) - 1)), allpkgs),
            !.pkgfiles = <<>>]
    ELSE st

enter_package(st, line, allpkgs) ==
    IF endswith(line, ":") /\ startswith(line, "./")
    THEN [st EXCEPT
            !.pkg = first_known(Reverse(path_parts(SubSeq(line, 1, Len(line) - 1))),
                                allpkgs),
            !.pkgfiles = <<>>]
    ELSE st

\* the file step without `allfiles.append(pkgfile.name)`
collect_file_block_only(st, line) ==
    IF path_suffix(line) \in {".sty", ".def", ".cls"}
    THEN [st EXCEPT !.pkgfiles = Append(@, path_name(line))]
    ELSE st

collect_file(st, line) ==
    IF path_suffix(line) \in {".sty", ".def", ".cls"}
    THEN [st EXCEPT !.pkgfiles = Append(@, path_name(line)),
                    !.allfiles = Append(@, path_name(line))]
    ELSE st

close_block(st) ==
    LET p == st.pkg[1]
        db == IF Len(st.pkgfiles) > 0
              THEN dict_set(st.lsRdb, p,
                            (IF p \in DOMAIN st.lsRdb THEN st.lsRdb[p] ELSE <<>>)
                                \o st.pkgfiles)
              ELSE st.lsRdb
    IN [st EXCEPT !.lsRdb = db, !.pkg = None]

loop_body(st, raw, allpkgs) ==
    LET line == rstrip_newline(raw)
    IN IF startswith(line, "./doc") \/ startswith(line, "./source") THEN st
       ELSE LET s1 == enter_package(st, line, allpkgs)
            IN IF s1.pkg = None THEN s1
               ELSE IF line # "" THEN collect_file(s1, line)
               ELSE close_block(s1)

(***************************************************************************)
(* package2sty, with the return statement that produced the value.        *)
(***************************************************************************)
\* for f in files: if f.lower() == pkgname + '.sty': return Path(f).stem
\* (pkgname + '.sty' is a string of this module, which f.lower() is only
\* when can_lower(f))
RECURSIVE scan_lower(_, _)
scan_lower(files, pkgname) ==
    IF files = <<>> THEN [value |-> None, at |-> "return None"]
    ELSE IF can_lower(Head(files)) /\ lower(Head(files)) = pkgname \o ".sty"
    THEN [value |-> Some(path_stem(Head(files))), at |-> "return Path(f).stem"]
    ELSE scan_lower(Tail(files), pkgname)

package2sty_return(pkgname, db, allsty) ==
    LET styname == pkgname \o ".sty"
    IN IF InList(styname, allsty)
       THEN [value |-> Some(pkgname), at |-> "styname in allsty"]
       ELSE IF pkgname \in DOMAIN db
       THEN LET files == db[pkgname]
            IN IF InList(pkgname \o ".sty", files)
               THEN [value |-> Some(pkgname), at |-> "styname in files"]
               ELSE scan_lower(files, pkgname)
       ELSE [value |-> None, at |-> "return None"]

package2sty(pkgname, db, allsty) == package2sty_return(pkgname, db, allsty).value

(***************************************************************************)
(* get_packages.  The result carries ctanDict as the call leaves it: the   *)
(* records put into package_data are copies, so overwriting `command`      *)
(* does not reach the catalog.                                             *)
(***************************************************************************)
RECURSIVE get_packages_loop(_, _, _, _, _)
get_packages_loop(todo, package_data0, db, catalog, allsty) ==
    IF todo = {} THEN package_data0
    ELSE LET p == CHOOSE p \in todo : TRUE
             basefile == package2sty(p, db, allsty)
             next == IF basefile # None
                     THEN dict_set(package_data0, p,
                                   [catalog[p] EXCEPT !.command = basefile[1]])
                     ELSE package_data0
         IN get_packages_loop(todo \ {p}, next, db, catalog, allsty)

\* get_packages without `.copy()`: package_data[pkg] is the catalog's own record
get_packages_alias(db, catalog, allsty) ==
    LET package_data0 == get_packages_loop(DOMAIN catalog, EmptyDict, db, catalog, allsty)
    IN [package_data |-> package_data0,
        ctanDict |-> [p \in DOMAIN catalog |->
                        IF p \in DOMAIN package_data0 THEN package_data0[p]
                        ELSE catalog[p]]]

get_packages(db, catalog, allsty) ==
    [package_data |-> get_packages_loop(DOMAIN catalog, EmptyDict, db, catalog, allsty),
     ctanDict |-> catalog]

(***************************************************************************)
(* get_classes                                                             *)
(***************************************************************************)
class_record(base, catalog) ==
    [command |-> base,
     detail |-> IF base \in DOMAIN catalog THEN catalog[base].detail ELSE "",
     documentation |-> IF base \in DOMAIN catalog
                       THEN catalog[base].documentation ELSE ""]

\* get_classes without its `.cls` filter
RECURSIVE get_classes_no_filter(_, _)
get_classes_no_filter(all_lsR_files, catalog) ==
    IF all_lsR_files = <<>> THEN EmptyDict
    ELSE LET n == Len(all_lsR_files)
             base == path_stem(all_lsR_files[n])
         IN dict_set(get_classes_no_filter(SubSeq(all_lsR_files, 1, n - 1), catalog),
                     base, class_record(base, catalog))

\* get_classes storing `detail` under 'command'
RECURSIVE get_classes_swapped(_, _)
get_classes_swapped(all_lsR_files, catalog) ==
    IF all_lsR_files = <<>> THEN EmptyDict
    ELSE LET n == Len(all_lsR_files)
             c == all_lsR_files[n]
             before == get_classes_swapped(SubSeq(all_lsR_files, 1, n - 1), catalog)
             base == path_stem(c)
         IN IF ~endswith(c, ".cls") THEN before
            ELSE dict_set(before, base,
                          [class_record(base, catalog) EXCEPT
                              !.command = class_record(base, catalog).detail])

RECURSIVE get_classes(_, _)
get_classes(all_lsR_files, catalog) ==
    IF all_lsR_files = <<>> THEN EmptyDict
    ELSE LET n == Len(all_lsR_files)
             c == all_lsR_files[n]
             before == get_classes(SubSeq(all_lsR_files, 1, n - 1), catalog)
             base == path_stem(c)
         IN IF ~endswith(c, ".cls") THEN before
            ELSE dict_set(before, base, class_record(base, catalog))

(***************************************************************************)
(* add_extra_packages: the value of `packages` after the call.             *)
(***************************************************************************)
RECURSIVE add_extra_loop(_, _, _)
add_extra_loop(todo, packages, extra) ==
    IF todo = {} THEN packages
    ELSE LET p == CHOOSE p \in todo : TRUE
             next == IF p \notin DOMAIN packages
                     THEN dict_set(packages, p, extra[p])
                     ELSE packages
         IN add_extra_loop(todo \ {p}, next, extra)

\* the merge without its `if pkg not in packages.keys()` guard
add_extra_packages_overwrite(packages, extra) ==
    [p \in DOMAIN packages \cup DOMAIN extra |->
        IF p \in DOMAIN extra THEN extra[p] ELSE packages[p]]

add_extra_packages(packages, extra) == add_extra_loop(DOMAIN extra, packages, extra)

(***************************************************************************)
(* Inputs.  The names are ASCII: the model checker keeps the strings of a  *)
(* state one byte per code point, so the rows of the case tables beyond    *)
(* ASCII are reached by evaluating lower and package2sty on their own.     *)
(***************************************************************************)
CatalogEntries ==
    { [key |-> "a", caption |-> "pkg a"],
      [key |-> "b", caption |-> "pkg b"],
      [key |-> "A", caption |-> "pkg A"],
      [key |-> "", caption |-> "no name"] }

CatalogLists ==
    UNION { [1..n -> CatalogEntries] : n \in 0..MaxCatalog }

IndexLines ==
    { "\n", "./a/b:\n", "./A:\n", "./doc/a:\n", "./source/b:\n",
      "a.sty\n", "A.sty\n", "b.cls\n", "b.def\n", "x.txt\n" }

ExtraKeys == {"a", "b", "z"}

ExtraRecords ==
    { [command |-> "zz", detail |-> "extra", documentation |-> "extra doc"],
      [command |-> "", detail |-> "extra", documentation |-> ""] }

ExtrasTables ==
    UNION { [S -> ExtraRecords] : S \in {T \in SUBSET ExtraKeys : Cardinality(T) <= MaxExtras} }

(***************************************************************************)
(* The run.                                                                *)
(***************************************************************************)
Init ==
    /\ pc = "fetch"
    /\ ctanDict = EmptyDict
    /\ read = <<>>
    /\ lsRdb = EmptyDict
    /\ pkg = None
    /\ pkgfiles = <<>>
    /\ allfiles = <<>>
    /\ package_data = EmptyDict
    /\ extra_packages = EmptyDict
    /\ class_data = EmptyDict
    /\ packagenames = None
    /\ classnames = None

\* ctanDict = build_ctanDict(json.loads(requests.get(CTAN_SOURCE).content))
FetchCatalog ==
    /\ pc = "fetch"
    /\ \E ctanList \in CatalogLists : ctanDict' = build_ctanDict(ctanList)
    /\ pc' = "load_texmfbd"
    /\ UNCHANGED <<read, lsRdb, pkg, pkgfiles, allfiles, package_data,
                   extra_packages, class_data, packagenames, classnames>>

\* one iteration of the loop of load_texmfbd, on a line drawn from `lines`
Iterate(lines, max) ==
    /\ pc = "load_texmfbd"
    /\ Len(read) < max
    /\ \E raw \in lines :
          LET st == loop_body([lsRdb |-> lsRdb, pkg |-> pkg, pkgfiles |-> pkgfiles,
                               allfiles |-> allfiles], raw, DOMAIN ctanDict)
          IN /\ read' = Append(read, raw)
             /\ lsRdb' = st.lsRdb
             /\ pkg' = st.pkg
             /\ pkgfiles' = st.pkgfiles
             /\ allfiles' = st.allfiles
    /\ UNCHANGED <<pc, ctanDict, package_data, extra_packages, class_data,
                   packagenames, classnames>>

ReadLine == Iterate(IndexLines, MaxLines)

\* end of file: load_texmfbd returns (lsRdb, allfiles); its locals and the
\* file object go away
EndOfFile ==
    /\ pc = "load_texmfbd"
    /\ pc' = "get_packages"
    /\ read' = <<>>
    /\ pkg' = None
    /\ pkgfiles' = <<>>
    /\ UNCHANGED <<ctanDict, lsRdb, allfiles, package_data, extra_packages,
                   class_data, packagenames, classnames>>

\* package_data = get_packages(lsRdb, ctanDict, all_lsR_files)
GetPackages ==
    /\ pc = "get_packages"
    /\ LET r == get_packages(lsRdb, ctanDict, allfiles)
       IN /\ package_data' = r.package_data
          /\ ctanDict' = r.ctanDict
    /\ pc' = "read_extras"
    /\ UNCHANGED <<read, lsRdb, pkg, pkgfiles, allfiles, extra_packages,
                   class_data, packagenames, classnames>>

\* json.load(open('./extra-packagenames.json'))
ReadExtras ==
    /\ pc = "read_extras"
    /\ \E e \in ExtrasTables : extra_packages' = e
    /\ pc' = "add_extra_packages"
    /\ UNCHANGED <<ctanDict, read, lsRdb, pkg, pkgfiles, allfiles, package_data,
                   class_data, packagenames, classnames>>

\* add_extra_packages(package_data, ...)
AddExtraPackages ==
    /\ pc = "add_extra_packages"
    /\ package_data' = add_extra_packages(package_data, extra_packages)
    /\ pc' = "write_packages"
    /\ UNCHANGED <<ctanDict, read, lsRdb, pkg, pkgfiles, allfiles, extra_packages,
                   class_data, packagenames, classnames>>

(***************************************************************************)
(* What an output file holds once open(..., 'w+') has truncated it.  The   *)
(* text json.dump produces for a table is kept as the table itself; the    *)
(* file holds either all of that text or a proper prefix of it (possibly   *)
(* nothing).  The file object is never closed explicitly: what is still    *)
(* buffered is written when the object is finalized at the end of the      *)
(* statement, and an error at that point is not raised.                    *)
(***************************************************************************)
Whole(table) == [data |-> table, complete |-> TRUE]

Part(table) == [data |-> table, complete |-> FALSE]

\* json.dump(package_data, open('../data/packagenames.json', 'w+', ...), ...)
\* returns: the file holds the whole text, or a prefix when the final flush failed
WritePackages ==
    /\ pc = "write_packages"
    /\ \E content \in {Whole(package_data), Part(package_data)} :
          packagenames' = Some(content)
    /\ pc' = "get_classes"
    /\ UNCHANGED <<ctanDict, read, lsRdb, pkg, pkgfiles, allfiles, package_data,
                   extra_packages, class_data, classnames>>

\* class_data = get_classes(all_lsR_files, ctanDict)
GetClasses ==
    /\ pc = "get_classes"
    /\ class_data' = get_classes(allfiles, ctanDict)
    /\ pc' = "write_classes"
    /\ UNCHANGED <<ctanDict, read, lsRdb, pkg, pkgfiles, allfiles, package_data,
                   extra_packages, packagenames, classnames>>

\* json.dump(class_data, open('../data/classnames.json', 'w+', ...), ...)
WriteClasses ==
    /\ pc = "write_classes"
    /\ \E content \in {Whole(class_data), Part(class_data)} :
          classnames' = Some(content)
    /\ pc' = "done"
    /\ UNCHANGED <<ctanDict, read, lsRdb, pkg, pkgfiles, allfiles, package_data,
                   extra_packages, class_data, packagenames>>

\* the statements that do I/O: an exception there is not caught and ends the run
IOSteps == {"fetch", "load_texmfbd", "read_extras", "write_packages", "write_classes"}

\* An exception at a write statement is raised by open(), and the file is
\* untouched, or by json.dump after open() truncated the file, and the file
\* holds the prefix written so far.
Fail ==
    /\ pc \in IOSteps
    /\ pc' = "aborted"
    /\ \/ UNCHANGED <<packagenames, classnames>>
       \/ /\ pc = "write_packages"
          /\ packagenames' = Some(Part(package_data))
          /\ UNCHANGED classnames
       \/ /\ pc = "write_classes"
          /\ classnames' = Some(Part(class_data))
          /\ UNCHANGED packagenames
    /\ UNCHANGED <<ctanDict, read, lsRdb, pkg, pkgfiles, allfiles, package_data,
                   extra_packages, class_data>>

Next ==
    \/ FetchCatalog
    \/ ReadLine
    \/ EndOfFile
    \/ GetPackages
    \/ ReadExtras
    \/ AddExtraPackages
    \/ WritePackages
    \/ GetClasses
    \/ WriteClasses
    \/ Fail

Spec == Init /\ [][Next]_vars

(***************************************************************************)
(* The index scan alone, on fewer kinds of line and longer files, so that  *)
(* several blocks of one package follow each other.                        *)
(***************************************************************************)
ScanLines == { "\n", "./a/b:\n", "./doc/a:\n", "a.sty\n", "b.cls\n" }

ScanLine == Iterate(ScanLines, MaxScan)

NextScan ==
    \/ FetchCatalog
    \/ ScanLine

SpecScan == Init /\ [][NextScan]_vars

(***************************************************************************)
(* Vocabulary of the properties.                                           *)
(***************************************************************************)
Count(x, list) == Cardinality({i \in 1..Len(list) : list[i] = x})

Range(list) == {list[i] : i \in 1..Len(list)}

IsHeader(line) == endswith(line, ":") /\ startswith(line, "./")

IsDocOrSource(line) == startswith(line, "./doc") \/ startswith(line, "./source")

Extensions == {".sty", ".def", ".cls"}

\* the line consumed by the step that led to the current value of `read`
LastLine(lines) == rstrip_newline(lines[Len(lines)])

\* the innermost segment of a header's directory that is a catalog key
InnermostKnown(header, keys) ==
    LET parts == path_parts(SubSeq(header, 1, Len(header) - 1))
        known == {i \in 1..Len(parts) : parts[i] \in keys}
    IN IF known = {} THEN None
       ELSE Some(parts[CHOOSE i \in known : \A j \in known : j <= i])

\* the last header among `lines` is a doc/source header
InSkippedBlock(lines) ==
    LET headers == {i \in 1..Len(lines) : IsHeader(rstrip_newline(lines[i]))}
    IN /\ headers # {}
       /\ IsDocOrSource(rstrip_newline(lines[CHOOSE i \in headers : \A j \in headers : j <= i]))

\* What the index says, block by block: a block runs from its header to the
\* next blank line or header; it is retained when its header is not a
\* doc/source header; its package is the innermost known segment.
RECURSIVE BlockView(_, _)
BlockView(lines, keys) ==
    IF lines = <<>> THEN [cur |-> None, map |-> EmptyDict, all |-> <<>>]
    ELSE LET n == Len(lines)
             v == BlockView(SubSeq(lines, 1, n - 1), keys)
             line == rstrip_newline(lines[n])
         IN IF IsHeader(line)
            THEN [v EXCEPT !.cur = IF IsDocOrSource(line) THEN None
                                   ELSE InnermostKnown(line, keys)]
            ELSE IF line = "" THEN [v EXCEPT !.cur = None]
            ELSE IF v.cur # None /\ path_suffix(line) \in Extensions
            THEN LET p == v.cur[1]
                     old == IF p \in DOMAIN v.map THEN v.map[p] ELSE <<>>
                 IN [v EXCEPT !.map = dict_set(v.map, p, Append(old, path_name(line))),
                              !.all = Append(v.all, path_name(line))]
            ELSE v

(***************************************************************************)
(* Properties.                                                             *)
(***************************************************************************)

\* C1: add_extra_packages never overwrites.  Across the merge step every key
\* of the package table keeps its record, every key of the extras table that
\* was absent gets the extras record, the key set becomes the union of both
\* key sets, and the extras table is unchanged.
C1_MergeNeverOverwrites ==
    [][ (pc = "add_extra_packages" /\ pc' = "write_packages") =>
          /\ \A k \in DOMAIN package_data :
                k \in DOMAIN package_data' /\ package_data'[k] = package_data[k]
          /\ \A k \in (DOMAIN extra_packages) \ (DOMAIN package_data) :
                k \in DOMAIN package_data' /\ package_data'[k] = extra_packages[k]
          /\ DOMAIN package_data' = (DOMAIN package_data) \cup (DOMAIN extra_packages)
          /\ extra_packages' = extra_packages ]_vars

\* C1 witness: after a merge, one key of the extras table kept the different
\* record the package table had, and another was inserted from the extras.
C1_Witness ==
    /\ pc = "write_packages"
    /\ \E k \in DOMAIN extra_packages :
          /\ k \in DOMAIN ctanDict
          /\ package_data[k] # extra_packages[k]
          /\ package_data[k].documentation = ctanDict[k].documentation
    /\ \E k \in DOMAIN extra_packages :
          k \notin DOMAIN ctanDict /\ package_data[k] = extra_packages[k]

\* C2: no partial-success mode.  Whenever the run has aborted with an error,
\* neither output file has been written; the files are written by a complete
\* run only, which writes both.
C2_NoPartialSuccess ==
    /\ pc = "aborted" => (packagenames = None /\ classnames = None)
    /\ pc = "done" => /\ packagenames = Some(Whole(package_data))
                      /\ classnames = Some(Whole(class_data))

\* C3: load_texmfbd skips doc and source blocks entirely.  A doc/source header
\* never changes the current package, and a file line between such a header and
\* the next header is appended neither to AllFilesList nor to the accumulator
\* that feeds PackageFileMap.
C3_SkipsDocAndSource ==
    [][ (pc = "load_texmfbd" /\ pc' = "load_texmfbd" /\ read' # read) =>
          LET line == LastLine(read')
          IN /\ (IsHeader(line) /\ IsDocOrSource(line)) => pkg' = pkg
             /\ (InSkippedBlock(read) /\ ~IsHeader(line) /\ line # "") =>
                   (allfiles' = allfiles /\ pkgfiles' = pkgfiles /\ lsRdb' = lsRdb) ]_vars

\* C4: package2sty falls back to a case-insensitive match.  For a catalog key p
\* with p.sty not in AllFilesList and p a key of PackageFileMap, the result is
\* the stem of the first attributed file equal to p.sty ignoring letter case,
\* and none when there is no such file.
C4_CaseInsensitiveFallback ==
    pc = "get_packages" =>
        \A p \in DOMAIN ctanDict :
            (~InList(p \o ".sty", allfiles) /\ p \in DOMAIN lsRdb) =>
                LET files == lsRdb[p]
                    hits == {i \in 1..Len(files) : lower(files[i]) = lower(p \o ".sty")}
                IN IF hits = {}
                   THEN package2sty(p, lsRdb, allfiles) = None
                   ELSE package2sty(p, lsRdb, allfiles) =
                           Some(path_stem(files[CHOOSE i \in hits : \A j \in hits : i <= j]))

\* C5: get_packages produces exactly the resolvable catalog packages.  After
\* the call the keys of the package table are the catalog keys for which
\* package2sty is not none; each record has the catalog's detail and
\* documentation and the resolved command; a key whose p.sty occurs anywhere
\* in AllFilesList resolves to p; the catalog is unchanged.
C5_ResolvablePackages ==
    [][ (pc = "get_packages" /\ pc' = "read_extras") =>
          /\ DOMAIN package_data' =
                {p \in DOMAIN ctanDict : package2sty(p, lsRdb, allfiles) # None}
          /\ \A p \in DOMAIN package_data' :
                /\ package_data'[p].detail = ctanDict[p].detail
                /\ package_data'[p].documentation = ctanDict[p].documentation
                /\ Some(package_data'[p].command) = package2sty(p, lsRdb, allfiles)
          /\ \A p \in DOMAIN ctanDict :
                InList(p \o ".sty", allfiles) =>
                    (p \in DOMAIN package_data' /\ package_data'[p].command = p)
          /\ ctanDict' = ctanDict
          /\ \A p \in DOMAIN ctanDict' : ctanDict'[p].command = p ]_vars

\* C5 witness: after get_packages, a package resolved through a p.sty that
\* was collected under another package's block, and a catalog package was
\* dropped.
C5_Witness ==
    /\ pc = "read_extras"
    /\ \E p \in DOMAIN package_data :
          /\ InList(p \o ".sty", allfiles)
          /\ p \notin DOMAIN lsRdb
    /\ \E p \in DOMAIN ctanDict : p \notin DOMAIN package_data

\* C5 second witness state: a resolved command that differs from the key.
C5_WitnessRenamed ==
    /\ pc = "read_extras"
    /\ \E p \in DOMAIN package_data : package_data[p].command # p

\* C6: get_classes builds the class table from the set of class files only.
\* Its keys are the stems of the entries ending in .cls; each record has
\* command = stem and the catalog's detail and documentation, or empty strings
\* when the stem is no catalog key; duplicating an entry or reversing the list
\* gives the same table.
C6_ClassTable ==
    pc = "write_classes" =>
        LET stems == {path_stem(allfiles[i]) :
                        i \in {j \in 1..Len(allfiles) : endswith(allfiles[j], ".cls")}}
        IN /\ DOMAIN class_data = stems
           /\ \A b \in stems :
                 /\ class_data[b].command = b
                 /\ class_data[b].detail =
                       (IF b \in DOMAIN ctanDict THEN ctanDict[b].detail ELSE "")
                 /\ class_data[b].documentation =
                       (IF b \in DOMAIN ctanDict THEN ctanDict[b].documentation ELSE "")
           /\ get_classes(Reverse(allfiles), ctanDict) = class_data
           /\ \A i \in 1..Len(allfiles) :
                 get_classes(Append(allfiles, allfiles[i]), ctanDict) = class_data

\* C6 witness: a class table built from a list that holds the same class file
\* twice next to files that are no class files, for a class the catalog knows.
C6_Witness ==
    /\ pc = "write_classes"
    /\ \E b \in DOMAIN class_data :
          /\ b \in DOMAIN ctanDict
          /\ Count(b \o ".cls", allfiles) >= 2
          /\ class_data[b].detail # ""
    /\ \E i \in 1..Len(allfiles) : ~endswith(allfiles[i], ".cls")

CommandsNonEmpty(table) == \A k \in DOMAIN table : table[k].command # ""

\* C7 as stated: every record of the package table that is written out and
\* every record of the class table has a non-empty command, for every catalog,
\* index and extras table.
C7_NonEmptyCommand ==
    /\ packagenames # None => CommandsNonEmpty(packagenames[1].data)
    /\ pc \in {"write_classes", "done"} => CommandsNonEmpty(class_data)

\* C7 amended: the same, provided every record of the extras table has a
\* non-empty command.
C7_NonEmptyCommandGivenExtras ==
    CommandsNonEmpty(extra_packages) =>
        /\ packagenames # None => CommandsNonEmpty(packagenames[1].data)
        /\ pc \in {"write_classes", "done"} => CommandsNonEmpty(class_data)

\* C7 witness: a complete run whose written package table holds a resolved
\* catalog package and an inserted extras record, with a non-empty class table.
C7_Witness ==
    /\ pc = "done"
    /\ CommandsNonEmpty(extra_packages)
    /\ packagenames = Some(Whole(package_data))
    /\ classnames = Some(Whole(class_data))
    /\ \E k \in DOMAIN package_data : k \in DOMAIN ctanDict /\ k \notin DOMAIN extra_packages
    /\ \E k \in DOMAIN package_data : k \in DOMAIN extra_packages /\ k \notin DOMAIN ctanDict
    /\ DOMAIN class_data # {}

\* C8: a header line that is not a doc/source line sets the current package to
\* the innermost path segment that is a catalog key, or to none when no
\* segment is one; while the current package is none, a line that is no such
\* header leaves PackageFileMap and AllFilesList unchanged.
C8_InnermostSegmentWins ==
    [][ (pc = "load_texmfbd" /\ pc' = "load_texmfbd" /\ read' # read) =>
          LET line == LastLine(read')
              enters == IsHeader(line) /\ ~IsDocOrSource(line)
          IN /\ enters => pkg' = InnermostKnown(line, DOMAIN ctanDict)
             /\ (~enters /\ pkg = None) => (lsRdb' = lsRdb /\ allfiles' = allfiles)
             /\ (enters /\ pkg' = None) => (lsRdb' = lsRdb /\ allfiles' = allfiles) ]_vars

\* C8 witness: a header two of whose segments are catalog keys has just been
\* read and the current package is its leaf segment.
C8_Witness ==
    /\ pc = "load_texmfbd"
    /\ Len(read) > 0
    /\ LET line == LastLine(read)
           parts == path_parts(SubSeq(line, 1, Len(line) - 1))
       IN /\ IsHeader(line) /\ ~IsDocOrSource(line)
          /\ Cardinality({i \in 1..Len(parts) : parts[i] \in DOMAIN ctanDict}) >= 2
          /\ pkg = Some(parts[Len(parts)])

\* C8 second witness state: a file with a collected extension read while the
\* current package is none after a header without any known segment.
C8_WitnessIgnored ==
    /\ pc = "load_texmfbd"
    /\ Len(read) >= 2
    /\ LET header == rstrip_newline(read[Len(read) - 1])
       IN /\ IsHeader(header) /\ ~IsDocOrSource(header)
          /\ InnermostKnown(header, DOMAIN ctanDict) = None
    /\ path_suffix(LastLine(read)) \in Extensions
    /\ allfiles = <<>>

\* C9: load_texmfbd merges blocks and loses nothing.  After any sequence of
\* lines, PackageFileMap[p] is the concatenation in encounter order of the
\* collected file names of every retained block of p, and AllFilesList is the
\* encounter-order sequence of the same names.
C9_BlocksMergedNothingLost ==
    pc = "load_texmfbd" =>
        /\ lsRdb = BlockView(read, DOMAIN ctanDict).map
        /\ allfiles = BlockView(read, DOMAIN ctanDict).all

\* C10: invariant of the index scan.  Every key of PackageFileMap is a catalog
\* key with a non-empty list; every name in a PackageFileMap list or in the
\* accumulator occurs in AllFilesList at least as often; so p.sty attributed to
\* p is in AllFilesList and package2sty never returns from its
\* `styname in files` test.
C10_ScanInvariant ==
    /\ \A p \in DOMAIN lsRdb :
          /\ p \in DOMAIN ctanDict
          /\ lsRdb[p] # <<>>
          /\ \A f \in Range(lsRdb[p]) : Count(f, lsRdb[p]) <= Count(f, allfiles)
    /\ \A f \in Range(pkgfiles) : Count(f, pkgfiles) <= Count(f, allfiles)
    /\ \A p \in DOMAIN ctanDict :
          /\ (p \in DOMAIN lsRdb /\ InList(p \o ".sty", lsRdb[p])) =>
                InList(p \o ".sty", allfiles)
          /\ package2sty_return(p, lsRdb, allfiles).at # "styname in files"

\* C10 witness: a package whose list was extended by a second block and holds
\* its own p.sty, twice.
C10_Witness ==
    /\ pc = "load_texmfbd"
    /\ \E p \in DOMAIN lsRdb :
          /\ Count(p \o ".sty", lsRdb[p]) >= 2
          /\ package2sty(p, lsRdb, allfiles) = Some(p)
    /\ Cardinality({i \in 2..Len(read) :
                      read[i] = "\n" /\ ~IsHeader(rstrip_newline(read[i - 1]))
                                     /\ read[i - 1] # "\n"}) >= 2

====
